---- MODULE Spec2Model ----
(***************************************************************************)
(* Model of the greenhouse controller of src/control.py: the PLC link      *)
(* (PLCConnection), the advisor (AIAgent.analyze_data) and the monitoring  *)
(* loop of SeraKontrolSistemi.                                             *)
(*                                                                         *)
(*   Spec      any caller of start()/stop(); every start() spawns a        *)
(*             monitoring thread; the loop body is followed at the         *)
(*             granularity of its control flow.                            *)
(*   FairSpec  Spec, every monitoring thread being scheduled.              *)
(*   MainSpec  the program as run by the __main__ block (one start(),      *)
(*             stop() on interrupt); the loop body is followed call by     *)
(*             call with the PLC's display blocks and output byte.         *)
(*   OpSpec    the operations of PLCConnection called on their own, from   *)
(*             either state of the link, with an external writer to the    *)
(*             output area.                                                *)
(***************************************************************************)
EXTENDS Integers, Sequences, FiniteSets, TLC

\* ------------------------------------------------------------------ bounds
\* start() calls followed (each spawns one monitoring thread).
MaxThreads == 3

Threads == 1..MaxThreads

\* Write failures (transport error or no connection) followed in one run.
MaxFaults == 1

\* Writes to the output area made by something other than this program.
MaxExt == 1

\* ------------------------------------------------------------------- texts
\* A text is a sequence of code points.
Min(a, b) == IF a < b THEN a ELSE b

\* Python text[a:b] for 0 <= a <= b.
Slice(text, a, b) == SubSeq(text, a + 1, Min(b, Len(text)))

\* The character c, n times.
Rep(c, n) == [i \in 1..n |-> c]

\* The replacements of util(), in the order of the dict.
Replacements ==
    << <<231, 99>>, <<199, 67>>, <<287, 103>>, <<286, 71>>,
       <<305, 105>>, <<304, 73>>, <<246, 111>>, <<214, 79>>,
       <<351, 115>>, <<350, 83>>, <<252, 117>>, <<220, 85>> >>

\* text.replace(old, new) for one-character old and new.
Replace(text, old, new) ==
    [i \in 1..Len(text) |-> IF text[i] = old THEN new ELSE text[i]]

RECURSIVE UtilFrom(_, _)
UtilFrom(text, k) ==
    IF k > Len(Replacements) THEN text
    ELSE UtilFrom(Replace(text, Replacements[k][1], Replacements[k][2]), k + 1)

\* Faulty variant, for comparison: the Turkish letters are dropped.
utilDropping(text) == SelectSeq(text, LAMBDA c : c < 128)

\* util(text): the replacements applied one after the other.
util(text) == UtilFrom(text, 1)

\* data.encode('ascii', 'ignore')
EncodeAsciiIgnore(data) == SelectSeq(data, LAMBDA c : c < 128)

\* --------------------------------------------------------------- PLC areas
\* Default max_size of write_db_string.
DefaultMaxSize == 230

\* The bytearray write_db_string builds for (data, max_size): size bytes,
\* byte 0 = maxlen, byte 1 = len, bytes 2.. = body, every later byte 0.
DbStringBuffer(data, max_size) ==
    LET actual_length == Min(Len(data), max_size)
        data_bytes == EncodeAsciiIgnore(data)
    IN  [size |-> max_size + 2,
         maxlen |-> max_size,
         len |-> actual_length,
         body |-> SubSeq(data_bytes, 1, Min(actual_length, Len(data_bytes)))]

\* Byte i (0-based) of such a buffer.
BufferByte(buf, i) ==
    IF i = 0 THEN buf.maxlen
    ELSE IF i = 1 THEN buf.len
    ELSE IF i - 1 <= Len(buf.body) THEN buf.body[i - 1]
    ELSE 0

\* The display blocks written by the loop: DB1..DB3 summary, DB4..DB8 alerts.
Blocks == 1..8

\* The MK area of the PLC (bytes 0..11), as the five reads see it.
MkArea == [a \in 0..11 |-> 65 + a]

\* read_area(Areas.MK, 0, start, n): n bytes from start.
ReadArea(start, n) == [i \in 1..n |-> MkArea[start + i - 1]]

\* struct.unpack('>f', result): needs exactly 4 bytes; the float is
\* identified by its bit pattern.
UnpackFloat(result) ==
    IF Len(result) = 4 THEN [ok |-> TRUE, value |-> result]
    ELSE [ok |-> FALSE, value |-> <<>>]

\* 0.0
ZeroFloat == <<0, 0, 0, 0>>

\* What the PLC link does to one read: the transport answers ("ok"), it
\* raises ("error"), it answers with too few bytes ("malformed"), or the
\* link is down and connect() fails ("noconn").
ReadOutcomes == {"ok", "error", "malformed", "noconn"}

\* get_connected() after a call that met outcome out: down when connect()
\* failed, up when the transport was reached.
LinkAfter(out) == out # "noconn"

\* Faulty variant, for comparison: the operation never calls connect().
ConnectCallsNone(linkUp, out) == 0

\* The connect() calls of one operation on a link in state linkUp
\* (get_connected()): one when the link is down at the call (an up link
\* meeting "noconn" has dropped since the last call), none otherwise.
ConnectCalls(linkUp, out) == IF ~linkUp \/ out = "noconn" THEN 1 ELSE 0

\* The try body of read_md_float(md_address) on a link in state linkUp,
\* under outcome out: whether it raises, the value it returns otherwise,
\* the connect() calls made and the connection state left.
ReadMdFloatBody(md_address, linkUp, out) ==
    IF out = "noconn"
    THEN [raised |-> FALSE, value |-> ZeroFloat,
          connects |-> ConnectCalls(linkUp, out),
          connected |-> LinkAfter(out)]
    ELSE IF out = "error"
    THEN [raised |-> TRUE, value |-> ZeroFloat,
          connects |-> ConnectCalls(linkUp, out),
          connected |-> LinkAfter(out)]
    ELSE LET result == IF out = "malformed" THEN ReadArea(md_address, 2)
                       ELSE ReadArea(md_address, 4)
             value == UnpackFloat(result)
         IN  [raised |-> ~value.ok, value |-> value.value,
              connects |-> ConnectCalls(linkUp, out),
              connected |-> LinkAfter(out)]

\* Faulty variant, for comparison: read_md_float without its except clause.
read_md_float_uncaught(md_address, linkUp, out) ==
    ReadMdFloatBody(md_address, linkUp, out)

\* read_md_float(md_address): the body, with except Exception: return 0.0.
read_md_float(md_address, linkUp, out) ==
    LET r == ReadMdFloatBody(md_address, linkUp, out)
    IN  IF r.raised THEN [r EXCEPT !.raised = FALSE, !.value = ZeroFloat]
        ELSE r

\* The sensors in the order read_all_sensor_data reads them, with the MD
\* address of each.
SensorOrder == <<"Isik", "CO2", "ToprakNemi", "Nem", "Sicaklik">>
SensorAddress ==
    [Isik |-> 0, CO2 |-> 2, ToprakNemi |-> 4, Nem |-> 6, Sicaklik |-> 8]

\* {} in Python.
EmptyDict == <<>>

\* read_all_sensor_data(), read k meeting outs[k]: data[...] =
\* self.read_md_float(...) one after the other (linkUp is the state the
\* link is in before the first); the first read that raises ends the try in
\* the except branch, which returns {}.  The dict returned and the
\* connection state left.
read_all_sensor_data(linkUp, outs) ==
    LET n == Len(SensorOrder)
        reads == [k \in 1..n |->
                    read_md_float(SensorAddress[SensorOrder[k]],
                                  IF k = 1 THEN linkUp
                                  ELSE LinkAfter(outs[k - 1]),
                                  outs[k])]
        raising == {k \in 1..n : reads[k].raised}
        last == IF raising = {} THEN n
                ELSE CHOOSE k \in raising : \A j \in raising : k <= j
    IN  [data |-> IF raising # {} THEN EmptyDict
                  ELSE [name \in {SensorOrder[k] : k \in 1..n} |->
                          reads[CHOOSE k \in 1..n : SensorOrder[k] = name].value],
         connected |-> reads[last].connected]

\* What the PLC link does to one write call: it goes through ("ok"), the
\* transport raises ("error"), or the link is down and connect() fails
\* ("noconn").
WriteOutcomes == {"ok", "error", "noconn"}

\* write_db_string(db_number, 0, data) under outcome out: the block as left,
\* and the value returned.
write_db_string(block, db_number, data, out) ==
    IF out = "ok"
    THEN [block |-> DbStringBuffer(data, DefaultMaxSize), ret |-> TRUE]
    ELSE [block |-> block, ret |-> FALSE]

\* bytearray(max_size + 2) or buffer[0] = max_size raises (ValueError,
\* IndexError) for a max_size that is not a byte value.
BufferRaises(max_size) == max_size < 0 \/ max_size > 255

\* write_db_string(db_number, start_offset, data, max_size) on a link in
\* state linkUp under outcome out: the block as left, the value returned, the
\* connect() and db_write() calls made and the connection state left.  An
\* exception of the try body is caught and turned into False.
write_db_string_max_size(block, data, max_size, linkUp, out) ==
    IF out = "noconn"
    THEN [block |-> block, ret |-> FALSE, raised |-> FALSE,
          connects |-> ConnectCalls(linkUp, out), reads |-> 0, writes |-> 0,
          connected |-> LinkAfter(out)]
    ELSE IF BufferRaises(max_size)
    THEN [block |-> block, ret |-> FALSE, raised |-> FALSE,
          connects |-> ConnectCalls(linkUp, out), reads |-> 0, writes |-> 0,
          connected |-> LinkAfter(out)]
    ELSE [block |-> IF out = "ok" THEN DbStringBuffer(data, max_size)
                    ELSE block,
          ret |-> out = "ok", raised |-> FALSE,
          connects |-> ConnectCalls(linkUp, out), reads |-> 0, writes |-> 1,
          connected |-> LinkAfter(out)]

\* What one connect() attempt meets: the session is set up ("ok"), or
\* Client() / connect(ip, rack, slot) raises ("noconn").
ConnectOutcomes == {"ok", "noconn"}

\* connect(): a new client is created and connected, whatever the state of
\* the link; except Exception: self.plc_client = None.
connect(out) == [connected |-> out = "ok", raised |-> FALSE]

\* self.equipment_mapping: "Q<byte>.<bit>" parsed into byte and bit offset
\* (names written without their Turkish letters).
equipment_mapping ==
    [Havalandirma  |-> [byte |-> 0, bit |-> 0],
     Golgelendirme |-> [byte |-> 0, bit |-> 1],
     Isitici       |-> [byte |-> 0, bit |-> 2],
     Nemlendirici  |-> [byte |-> 0, bit |-> 3],
     Sulama        |-> [byte |-> 0, bit |-> 4],
     Drenaj        |-> [byte |-> 0, bit |-> 5],
     CO2_Tupu      |-> [byte |-> 0, bit |-> 6],
     Led           |-> [byte |-> 0, bit |-> 7]]

RECURSIVE Pow2(_)
Pow2(n) == IF n = 0 THEN 1 ELSE 2 * Pow2(n - 1)

\* Bit i of a byte.
BitOf(byte, i) == (byte \div Pow2(i)) % 2

\* Faulty variant, for comparison: the bit is set whatever the value.
ModifyBitSetOnly(result_byte, bit_offset, value) ==
    IF BitOf(result_byte, bit_offset) = 1 THEN result_byte
    ELSE result_byte + Pow2(bit_offset)

\* result_byte |= mask or result_byte &= ~mask, with mask = 1 << bit_offset.
ModifyBit(result_byte, bit_offset, value) ==
    LET mask == Pow2(bit_offset)
    IN  IF value
        THEN IF BitOf(result_byte, bit_offset) = 1 THEN result_byte
             ELSE result_byte + mask
        ELSE IF BitOf(result_byte, bit_offset) = 1 THEN result_byte - mask
             ELSE result_byte

\* An output address as lines 98-103 parse it: "Q<byte>.<bit>" gives the two
\* integers; for any other text parts[1] or int() raises.
QAddress(byte, bit) == [parses |-> TRUE, byte |-> byte, bit |-> bit]
BadAddress == [parses |-> FALSE, byte |-> 0, bit |-> 0]

\* write_bool lines 90-107 on a link in state linkUp under outcome out: the
\* connection check, the parse of the address and the read of the current
\* byte.  failed: the call returns False here.
WriteBoolRead(address, linkUp, out) ==
    [connects |-> ConnectCalls(linkUp, out),
     connected |-> LinkAfter(out),
     reads |-> IF out = "noconn" \/ ~address.parses THEN 0 ELSE 1,
     failed |-> out # "ok" \/ ~address.parses]

\* Faulty variant, for comparison: the byte is built from the mask alone.
WriteBoolModifyMaskOnly(result0, bit_offset, value) ==
    [raised |-> bit_offset < 0,
     byte |-> IF value /\ bit_offset >= 0 THEN Pow2(bit_offset) ELSE 0]

\* write_bool lines 110-119: 1 << bit_offset raises for a negative
\* bit_offset; result[0] = result_byte raises unless it is in 0..255.
WriteBoolModify(result0, bit_offset, value) ==
    IF bit_offset < 0 THEN [raised |-> TRUE, byte |-> result0]
    ELSE LET result_byte == ModifyBit(result0, bit_offset, value)
         IN  [raised |-> result_byte < 0 \/ result_byte > 255,
              byte |-> result_byte]

\* write_bool lines 109-127 with result[0] = result0, the write_area call
\* meeting out: the byte written (if any) and the value returned.
WriteBoolWrite(result0, address, value, out) ==
    LET m == WriteBoolModify(result0, address.bit, value)
    IN  IF m.raised
        THEN [writes |-> 0, written |-> FALSE, byte |-> result0, ret |-> FALSE]
        ELSE [writes |-> 1, written |-> out = "ok", byte |-> m.byte,
              ret |-> out = "ok"]

\* ----------------------------------------------------------------- advisor
\* "Hata oluştu: "
HataOlustu == <<72, 97, 116, 97, 32, 111, 108, 117, 351, 116, 117, 58, 32>>
\* "AI analizi başarısız"
AIAnaliziBasarisiz ==
    <<65, 73, 32, 97, 110, 97, 108, 105, 122, 105, 32,
      98, 97, 351, 97, 114, 305, 115, 305, 122>>
\* f"{k}.UYARI: "
UyariPrefix(k) == <<48 + k, 46, 85, 89, 65, 82, 73, 58, 32>>

\* Faulty variant, for comparison: the degraded result without its alert.
DegradedResultNoAlert(text) ==
    [keys |-> {"analiz", "eylemler", "uyarilar"},
     analiz |-> HataOlustu \o text,
     eylemler |-> <<>>,
     uyarilar |-> <<>>]

\* What analyze_data returns when its try body raises e (str(e) = text).
DegradedResult(text) ==
    [keys |-> {"analiz", "eylemler", "uyarilar"},
     analiz |-> HataOlustu \o text,
     eylemler |-> <<>>,
     uyarilar |-> <<AIAnaliziBasarisiz>>]

\* str(e) of the failures followed: "timeout".
FailureTexts == {<<116, 105, 109, 101, 111, 117, 116>>}

\* One entry of "eylemler": a dict with ekipman and durum, or something else.
Cmd(name, state) == [dict |-> TRUE, ekipman |-> name, durum |-> state]
NotADict == [dict |-> FALSE, ekipman |-> "", durum |-> FALSE]

\* Alert texts: "Isı N" for N = 1..7, and one of 102 characters.
Alert(n) == <<73, 115, 305, 32, 48 + n>>
LongAlert == Rep(97, 99) \o <<351, 351, 98>>
\* A summary of 260 characters.
LongSummary == Rep(97, 99) \o <<252>> \o Rep(98, 100) \o Rep(99, 60)
\* "Nem düşük"
ShortSummary == <<78, 101, 109, 32, 100, 252, 351, 252, 107>>

\* The JSON objects the advisor is followed returning (json.loads(result)):
\* keys holds the keys present.
AdvisorResults ==
    { [keys |-> {"analiz", "eylemler", "uyarilar"},
       analiz |-> ShortSummary,
       uyarilar |-> [n \in 1..7 |-> Alert(n)],
       eylemler |-> <<Cmd("Sulama", TRUE), Cmd("Sulama", FALSE)>>],
      [keys |-> {"analiz", "eylemler", "uyarilar"},
       analiz |-> LongSummary,
       uyarilar |-> <<LongAlert, Alert(2)>>,
       eylemler |-> <<Cmd("Bilinmeyen", TRUE), Cmd("Led", TRUE)>>],
      [keys |-> {"analiz"},
       analiz |-> <<>>,
       uyarilar |-> <<>>,
       eylemler |-> <<>>],
      [keys |-> {"eylemler", "uyarilar"},
       analiz |-> <<>>,
       uyarilar |-> <<Alert(1)>>,
       eylemler |-> <<Cmd("Led", FALSE)>>],
      [keys |-> {"analiz", "eylemler", "uyarilar"},
       analiz |-> ShortSummary,
       uyarilar |-> <<Alert(1)>>,
       eylemler |-> <<Cmd("Led", FALSE), NotADict, Cmd("Sulama", TRUE)>>] }

\* analysis_result.get("uyarılar", []) and analysis_result.get("eylemler", [])
GetUyarilar(result) ==
    IF "uyarilar" \in result.keys THEN result.uyarilar ELSE <<>>
GetEylemler(result) ==
    IF "eylemler" \in result.keys THEN result.eylemler ELSE <<>>

\* No analysis_result yet.
NoResult == [keys |-> {}, analiz |-> <<>>, uyarilar |-> <<>>, eylemler |-> <<>>]

\* The three slices of the summary written to DB1..DB3.
SummaryChunk(analiz, k) ==
    IF k = 1 THEN Slice(analiz, 0, 100)
    ELSE IF k = 2 THEN Slice(analiz, 100, 200)
    ELSE Slice(analiz, 200, 250)

\* ------------------------------------------------------------------- state
VARIABLES
    running,          \* self.running
    lastCall,         \* history: the last of start()/stop() called
    spawned,          \* number of monitoring threads created by start()
    pc,               \* pc[t]: where monitoring thread t is in the loop
    connected,        \* self.plc.plc_client is set and get_connected()
    db,               \* db[n]: the buffer held by display block DBn
    q,                \* q[b]: output byte b of the PLC (area PA)
    sensor_data,      \* sensor_data of the loop, until the advisor has it
    readLinked,       \* history: a read of this cycle found the link up
    analysis_result,  \* analysis_result of the loop
    advisor_exc,      \* history: the failure analyze_data caught, if any
    idx,              \* position in the display writes / the command list
    held,             \* result[0] of a write_bool between read and write
    faults,           \* failed write calls so far
    wlog,             \* history: write_db_string calls of this cycle
    blog,             \* history: write_bool calls of this cycle
    call,             \* a PLC operation called on its own: its arguments
    ret,              \* what that operation returned
    ext               \* history: the writes of the external writer

ctl == <<running, lastCall, spawned, pc>>
plc == <<connected, db, q, faults>>
loc == <<sensor_data, readLinked, analysis_result, advisor_exc, idx, held,
         wlog, blog>>
one == <<call, ret, ext>>
vars == <<ctl, plc, loc, one>>

\* Positions of a monitoring thread inside one pass of the while body.
InFlight == {"read", "analyze", "display", "actions"}
\* The three time.sleep(self.monitoring_interval) calls of the loop.
Sleeps == {"sleep_abort", "sleep_ok", "sleep_exc"}

\* What the blocks hold before the first cycle: "?".
StaleBuffer == DbStringBuffer(<<63>>, DefaultMaxSize)
NoExc == [failed |-> FALSE, text |-> <<>>]
NoByte == -1
NoCall == [op |-> "none"]

\* --------------------------------------------------------------- lifecycle
\* State after SeraKontrolSistemi.__init__: not running, no thread; the
\* connect() of PLCConnection.__init__ has succeeded or failed.
Init ==
    /\ running = FALSE
    /\ lastCall = "none"
    /\ spawned = 0
    /\ pc = [t \in Threads |-> "unborn"]
    /\ connected \in BOOLEAN
    /\ db = [n \in Blocks |-> StaleBuffer]
    /\ q = (0 :> 53) @@ (1 :> 170)
    /\ sensor_data = EmptyDict
    /\ readLinked = FALSE
    /\ analysis_result = NoResult
    /\ advisor_exc = NoExc
    /\ idx = 0
    /\ held = NoByte
    /\ faults = 0
    /\ wlog = <<>>
    /\ blog = <<>>
    /\ call = NoCall
    /\ ret = NoCall
    /\ ext = <<>>

\* start(): sets running and spawns a new thread, whatever the state.
Start ==
    /\ spawned < MaxThreads
    /\ running' = TRUE
    /\ lastCall' = "start"
    /\ spawned' = spawned + 1
    /\ pc' = [pc EXCEPT ![spawned + 1] = "test"]
    /\ UNCHANGED <<plc, loc, one>>

\* Faulty variant, for comparison: stop() that leaves running set.
StopLeavesRunning ==
    /\ running' = running
    /\ lastCall' = "stop"
    /\ UNCHANGED <<spawned, pc, plc, loc, one>>

\* stop(): clears running; touches no thread.
Stop ==
    /\ running' = FALSE
    /\ lastCall' = "stop"
    /\ UNCHANGED <<spawned, pc, plc, loc, one>>

\* Faulty variant, for comparison: while True.
LoopTestIgnoresRunning(t) ==
    /\ pc[t] = "test"
    /\ pc' = [pc EXCEPT ![t] = "read"]
    /\ UNCHANGED <<one, running, lastCall, spawned, plc, loc>>

\* while self.running: enter the body or leave the loop (thread ends).
LoopTest(t) ==
    /\ pc[t] = "test"
    /\ pc' = [pc EXCEPT ![t] = IF running THEN "read" ELSE "done"]
    /\ UNCHANGED <<one, running, lastCall, spawned, plc, loc>>

\* time.sleep(self.monitoring_interval) returns; back to the loop test.
Sleep(t) ==
    /\ pc[t] \in Sleeps
    /\ pc' = [pc EXCEPT ![t] = "test"]
    /\ UNCHANGED <<one, running, lastCall, spawned, plc, loc>>

\* --------------------------------------------- loop body, control flow only
\* analysis_result['analiz'] raises KeyError when the key is missing.
DisplayRaises(result) == "analiz" \notin result.keys
\* action.get(...) raises when an entry of the list is not a dict.
ActionsRaise(result) ==
    \E k \in 1..Len(GetEylemler(result)) : ~GetEylemler(result)[k].dict

\* What analyze_data can return: a parsed answer, or the degraded result.
Returned == AdvisorResults \cup {DegradedResult(e) : e \in FailureTexts}

\* Whether some outcome of the five reads makes read_all_sensor_data()
\* return {}.
SnapshotCanBeEmpty ==
    \E c \in BOOLEAN : \E outs \in [1..5 -> ReadOutcomes] :
        read_all_sensor_data(c, outs).data = EmptyDict

\* sensor_data = self.plc.read_all_sensor_data(); if not sensor_data: ...
BodyRead(t) ==
    /\ pc[t] = "read"
    /\ \E empty \in {FALSE} \cup {e \in {TRUE} : SnapshotCanBeEmpty} :
         pc' = [pc EXCEPT ![t] = IF empty THEN "sleep_abort" ELSE "analyze"]
    /\ UNCHANGED <<one, running, lastCall, spawned, plc, loc>>

\* analysis_result = self.ai_agent.analyze_data(...): never raises.
BodyAnalyze(t) ==
    /\ pc[t] = "analyze"
    /\ pc' = [pc EXCEPT ![t] = "display"]
    /\ UNCHANGED <<one, running, lastCall, spawned, plc, loc>>

\* The display writes: all of them, or the except branch.
BodyDisplay(t) ==
    /\ pc[t] = "display"
    /\ \E result \in Returned :
         pc' = [pc EXCEPT ![t] = IF DisplayRaises(result) THEN "sleep_exc"
                                  ELSE "actions"]
    /\ UNCHANGED <<one, running, lastCall, spawned, plc, loc>>

\* The command loop: all of it, or the except branch.
BodyActions(t) ==
    /\ pc[t] = "actions"
    /\ \E result \in Returned :
         pc' = [pc EXCEPT ![t] = IF ActionsRaise(result) THEN "sleep_exc"
                                  ELSE "sleep_ok"]
    /\ UNCHANGED <<one, running, lastCall, spawned, plc, loc>>

Next ==
    \/ Start
    \/ Stop
    \/ \E t \in Threads : LoopTest(t)
    \/ \E t \in Threads : BodyRead(t)
    \/ \E t \in Threads : BodyAnalyze(t)
    \/ \E t \in Threads : BodyDisplay(t)
    \/ \E t \in Threads : BodyActions(t)
    \/ \E t \in Threads : Sleep(t)

Spec == Init /\ [][Next]_vars

\* ------------------------------------------- loop body, call by call (main)
\* The monitoring thread of the program.
M == 1

\* system.start() of the __main__ block: called once.
MainStart ==
    /\ spawned = 0
    /\ Start

\* One write_db_string call of the loop under outcome out; util_arg is the
\* text util() was called with to build data (none for the clearing writes).
DbWrite(db_number, data, util_arg, out) ==
    LET w == write_db_string(db[db_number], db_number, data, out)
    IN  /\ out # "ok" => faults < MaxFaults
        /\ db' = [db EXCEPT ![db_number] = w.block]
        /\ connected' = LinkAfter(out)
        /\ faults' = IF out = "ok" THEN faults ELSE faults + 1
        /\ wlog' = Append(wlog, [block |-> db_number, len |-> Len(data),
                                 arg |-> Len(util_arg), ok |-> w.ret])

\* Every way read_all_sensor_data() can end from each connection state: the
\* dict, the connection state left, and whether a read found the link up.
ReadResults ==
    [c \in BOOLEAN |->
       {[r |-> read_all_sensor_data(c, outs),
         linked |-> \E k \in 1..5 : outs[k] # "noconn"] :
          outs \in [1..5 -> ReadOutcomes]}]

\* Lines 361-365: the snapshot, and the early return to the loop test.
ReadAll ==
    /\ pc[M] = "read"
    /\ \E res \in ReadResults[connected] :
         /\ sensor_data' = res.r.data
         /\ connected' = res.r.connected
         /\ readLinked' = res.linked
         /\ pc' = [pc EXCEPT ![M] = IF res.r.data = EmptyDict
                                    THEN "sleep_abort" ELSE "analyze"]
    /\ wlog' = <<>>
    /\ blog' = <<>>
    /\ UNCHANGED <<one, running, lastCall, spawned, db, q, faults,
                   analysis_result, advisor_exc, idx, held>>

\* Lines 382-383: analyze_data returns the advisor's answer, or catches the
\* failure and returns the degraded result.  sensor_data is not read again
\* before the next cycle assigns it, and is dropped here.
Analyze ==
    /\ pc[M] = "analyze"
    /\ \/ \E result \in AdvisorResults :
            /\ analysis_result' = result
            /\ advisor_exc' = NoExc
       \/ \E e \in FailureTexts :
            /\ analysis_result' = DegradedResult(e)
            /\ advisor_exc' = [failed |-> TRUE, text |-> e]
    /\ sensor_data' = EmptyDict
    /\ readLinked' = FALSE
    /\ idx' = 0
    /\ pc' = [pc EXCEPT ![M] = "display"]
    /\ UNCHANGED <<one, running, lastCall, spawned, plc, held, wlog, blog>>

\* Faulty variant, for comparison: the except branch without its sleep.
SummaryRaisesNoSleep ==
    /\ pc[M] = "display"
    /\ idx = 0
    /\ "analiz" \notin analysis_result.keys
    /\ pc' = [pc EXCEPT ![M] = "test"]
    /\ UNCHANGED <<one, running, lastCall, spawned, plc, loc>>

\* Line 387: analysis_result['analiz'] of a result without the key.
SummaryRaises ==
    /\ pc[M] = "display"
    /\ idx = 0
    /\ DisplayRaises(analysis_result)
    /\ pc' = [pc EXCEPT ![M] = "sleep_exc"]
    /\ UNCHANGED <<one, running, lastCall, spawned, plc, loc>>

\* Faulty variant, for comparison: an empty chunk is not written.
WriteSummarySkipsEmpty ==
    /\ pc[M] = "display"
    /\ idx \in 0..2
    /\ ~DisplayRaises(analysis_result)
    /\ IF SummaryChunk(analysis_result.analiz, idx + 1) = <<>>
       THEN UNCHANGED <<connected, db, faults, wlog>>
       ELSE \E out \in WriteOutcomes :
              DbWrite(idx + 1,
                      util(SummaryChunk(analysis_result.analiz, idx + 1)),
                      SummaryChunk(analysis_result.analiz, idx + 1), out)
    /\ idx' = idx + 1
    /\ UNCHANGED <<one, running, lastCall, spawned, pc, q, sensor_data, readLinked,
                   analysis_result, advisor_exc, held, blog>>

\* Lines 388-393: one of the three summary writes (DB1..DB3).
WriteSummary ==
    /\ pc[M] = "display"
    /\ idx \in 0..2
    /\ ~DisplayRaises(analysis_result)
    /\ \E out \in WriteOutcomes :
         DbWrite(idx + 1, util(SummaryChunk(analysis_result.analiz, idx + 1)),
                 SummaryChunk(analysis_result.analiz, idx + 1), out)
    /\ idx' = idx + 1
    /\ UNCHANGED <<one, running, lastCall, spawned, pc, q, sensor_data, readLinked,
                   analysis_result, advisor_exc, held, blog>>

\* Faulty variant, for comparison: the clearing loop writes nothing.
ClearAlertSkipped ==
    /\ pc[M] = "display"
    /\ idx \in 3..7
    /\ idx' = idx + 1
    /\ UNCHANGED <<one, running, lastCall, spawned, pc, plc, sensor_data,
                   readLinked, analysis_result, advisor_exc, held, wlog, blog>>

\* Lines 397-398: one pass of for j in range(5): write "" to DB(4+j).
ClearAlert ==
    /\ pc[M] = "display"
    /\ idx \in 3..7
    /\ \E out \in WriteOutcomes : DbWrite(4 + (idx - 3), <<>>, <<>>, out)
    /\ idx' = idx + 1
    /\ UNCHANGED <<one, running, lastCall, spawned, pc, q, sensor_data, readLinked,
                   analysis_result, advisor_exc, held, blog>>

\* Lines 403-420: one pass of the alert loop; i = idx - 7 after i = i+1.
WriteAlert ==
    LET i == idx - 7
        alerts == GetUyarilar(analysis_result)
    IN  /\ pc[M] = "display"
        /\ idx >= 8
        /\ i <= Len(alerts)
        /\ IF i <= 5
           THEN \E out \in WriteOutcomes :
                  DbWrite(3 + i, UyariPrefix(i) \o util(Slice(alerts[i], 0, 100)),
                          Slice(alerts[i], 0, 100), out)
           ELSE UNCHANGED <<connected, db, faults, wlog>>
        /\ idx' = idx + 1
        /\ UNCHANGED <<one, running, lastCall, spawned, pc, q, sensor_data,
                       readLinked, analysis_result, advisor_exc, held, blog>>

\* The alert loop is exhausted: on to the command loop.
EndDisplay ==
    /\ pc[M] = "display"
    /\ idx >= 8
    /\ idx - 7 > Len(GetUyarilar(analysis_result))
    /\ idx' = 0
    /\ pc' = [pc EXCEPT ![M] = "actions"]
    /\ UNCHANGED <<one, running, lastCall, spawned, plc, sensor_data, readLinked,
                   analysis_result, advisor_exc, held, wlog, blog>>

\* Faulty variant, for comparison: the exception is not caught and ends the thread.
ActionRaisesUncaught ==
    /\ pc[M] = "actions"
    /\ held = NoByte
    /\ idx < Len(GetEylemler(analysis_result))
    /\ ~GetEylemler(analysis_result)[idx + 1].dict
    /\ pc' = [pc EXCEPT ![M] = "done"]
    /\ UNCHANGED <<one, running, lastCall, spawned, plc, loc>>

\* Faulty variant, for comparison: a malformed entry is passed over and the
\* loop goes on with the next command.
ActionRaisesGoesOn ==
    LET cmds == GetEylemler(analysis_result)
    IN  /\ pc[M] = "actions"
        /\ held = NoByte
        /\ idx < Len(cmds)
        /\ ~cmds[idx + 1].dict
        /\ idx' = idx + 1
        /\ UNCHANGED <<one, running, lastCall, spawned, pc, plc, sensor_data,
                       readLinked, analysis_result, advisor_exc, held, wlog,
                       blog>>

\* Lines 424-426: action.get(...) of an entry that is not a dict.
ActionRaises ==
    LET cmds == GetEylemler(analysis_result)
    IN  /\ pc[M] = "actions"
        /\ held = NoByte
        /\ idx < Len(cmds)
        /\ ~cmds[idx + 1].dict
        /\ pc' = [pc EXCEPT ![M] = "sleep_exc"]
        /\ UNCHANGED <<one, running, lastCall, spawned, plc, loc>>

\* Faulty variant, for comparison: an unknown name ends the cycle in the
\* except branch.
ActionUnknownAborts ==
    LET cmds == GetEylemler(analysis_result)
    IN  /\ pc[M] = "actions"
        /\ held = NoByte
        /\ idx < Len(cmds)
        /\ cmds[idx + 1].dict
        /\ cmds[idx + 1].ekipman \notin DOMAIN equipment_mapping
        /\ pc' = [pc EXCEPT ![M] = "sleep_exc"]
        /\ UNCHANGED <<one, running, lastCall, spawned, plc, loc>>

\* Lines 440-441: an equipment name outside the mapping is logged, skipped.
ActionUnknown ==
    LET cmds == GetEylemler(analysis_result)
    IN  /\ pc[M] = "actions"
        /\ held = NoByte
        /\ idx < Len(cmds)
        /\ cmds[idx + 1].dict
        /\ cmds[idx + 1].ekipman \notin DOMAIN equipment_mapping
        /\ idx' = idx + 1
        /\ UNCHANGED <<one, running, lastCall, spawned, pc, plc, sensor_data,
                       readLinked, analysis_result, advisor_exc, held, wlog,
                       blog>>

\* Lines 432-436 and write_bool lines 90-107: the connection check and the
\* read of the current output byte.
ActionRead ==
    LET cmds == GetEylemler(analysis_result)
        cmd == cmds[idx + 1]
        addr == equipment_mapping[cmd.ekipman]
    IN  /\ pc[M] = "actions"
        /\ held = NoByte
        /\ idx < Len(cmds)
        /\ cmd.dict
        /\ cmd.ekipman \in DOMAIN equipment_mapping
        /\ \E out \in WriteOutcomes :
             /\ out # "ok" => faults < MaxFaults
             /\ connected' = LinkAfter(out)
             /\ faults' = IF out = "ok" THEN faults ELSE faults + 1
             /\ held' = IF out = "ok" THEN q[addr.byte] ELSE NoByte
             /\ idx' = IF out = "ok" THEN idx ELSE idx + 1
             /\ blog' = IF out = "ok" THEN blog
                        ELSE Append(blog, [ekipman |-> cmd.ekipman,
                                           durum |-> cmd.durum, ok |-> FALSE])
        /\ UNCHANGED <<one, running, lastCall, spawned, pc, db, q, sensor_data,
                       readLinked, analysis_result, advisor_exc, wlog>>

\* write_bool lines 109-127: the bit is modified in the byte read and the
\* byte written back.
ActionWrite ==
    LET cmd == GetEylemler(analysis_result)[idx + 1]
        addr == equipment_mapping[cmd.ekipman]
        result_byte == ModifyBit(held, addr.bit, cmd.durum)
    IN  /\ pc[M] = "actions"
        /\ held # NoByte
        /\ \E out \in {"ok", "error"} :
             /\ out # "ok" => faults < MaxFaults
             /\ faults' = IF out = "ok" THEN faults ELSE faults + 1
             /\ q' = IF out = "ok" THEN [q EXCEPT ![addr.byte] = result_byte]
                     ELSE q
             /\ blog' = Append(blog, [ekipman |-> cmd.ekipman,
                                      durum |-> cmd.durum, ok |-> out = "ok"])
        /\ held' = NoByte
        /\ idx' = idx + 1
        /\ UNCHANGED <<one, running, lastCall, spawned, pc, connected, db,
                       sensor_data, readLinked, analysis_result, advisor_exc,
                       wlog>>

\* The command loop is exhausted: line 444.
EndActions ==
    /\ pc[M] = "actions"
    /\ held = NoByte
    /\ idx >= Len(GetEylemler(analysis_result))
    /\ pc' = [pc EXCEPT ![M] = "sleep_ok"]
    /\ UNCHANGED <<one, running, lastCall, spawned, plc, loc>>

MainNext ==
    \/ MainStart
    \/ Stop
    \/ LoopTest(M)
    \/ ReadAll
    \/ Analyze
    \/ SummaryRaises
    \/ WriteSummary
    \/ ClearAlert
    \/ WriteAlert
    \/ EndDisplay
    \/ ActionRaises
    \/ ActionUnknown
    \/ ActionRead
    \/ ActionWrite
    \/ EndActions
    \/ Sleep(M)

MainSpec == Init /\ [][MainNext]_vars

\* Every monitoring thread that can take a step eventually takes one.
ThreadStep(t) ==
    \/ LoopTest(t)
    \/ BodyRead(t)
    \/ BodyAnalyze(t)
    \/ BodyDisplay(t)
    \/ BodyActions(t)
    \/ Sleep(t)

FairSpec == Spec /\ \A t \in Threads : WF_vars(ThreadStep(t))

\* ------------------------------------------- PLC operations on their own
\* read_all_sensor_data() called on the link, each read meeting any outcome.
CallReadAllSensorData ==
    /\ call = NoCall
    /\ \E outs \in [1..5 -> ReadOutcomes] :
         LET r == read_all_sensor_data(connected, outs)
         IN  /\ call' = [op |-> "read_all_sensor_data",
                         connected |-> connected, outs |-> outs]
             /\ ret' = r.data
             /\ connected' = r.connected
    /\ UNCHANGED <<ctl, db, q, faults, loc, ext>>

\* The outcomes a call can meet on the link as it is: connect() is reached,
\* and can fail, only when get_connected() is false at the call.
OutcomesNow(outcomes) == {out \in outcomes : out = "noconn" => ~connected}

\* connect() called on the link, connected or not.
CallConnect ==
    /\ call = NoCall
    /\ \E out \in ConnectOutcomes :
         LET r == connect(out)
         IN  /\ call' = [op |-> "connect", connected |-> connected,
                         out |-> out]
             /\ ret' = [value |-> "None", raised |-> r.raised, connects |-> 1,
                        reads |-> 0, writes |-> 0]
             /\ connected' = r.connected
    /\ UNCHANGED <<ctl, db, q, faults, loc, ext>>

\* The MD addresses read_md_float is called with.
HarnessMdAddresses == {0, 2, 4, 6, 8}

\* read_md_float(md_address) called on the link.
CallReadMdFloat ==
    /\ call = NoCall
    /\ \E md_address \in HarnessMdAddresses :
       \E out \in OutcomesNow(ReadOutcomes) :
         LET r == read_md_float(md_address, connected, out)
         IN  /\ call' = [op |-> "read_md_float", md_address |-> md_address,
                         connected |-> connected, out |-> out]
             /\ ret' = [value |-> r.value, raised |-> r.raised,
                        connects |-> r.connects,
                        reads |-> IF out = "noconn" THEN 0 ELSE 1,
                        writes |-> 0]
             /\ connected' = r.connected
    /\ UNCHANGED <<ctl, db, q, faults, loc, ext>>

\* Texts write_db_string is called with: "HELLO", "a°b", "", "Nem düşük"
\* and 260 times "a".
Hello == <<72, 69, 76, 76, 79>>
HarnessTexts == {Hello, <<97, 176, 98>>, <<>>, ShortSummary, Rep(97, 260)}
\* The max_size values it is called with.
HarnessSizes == {0, 1, 2, 5, 100, DefaultMaxSize, 255, 256, 300}

\* write_db_string(1, 0, data, max_size) called on the link.
CallWriteDbString ==
    /\ call = NoCall
    /\ \E data \in HarnessTexts : \E max_size \in HarnessSizes :
       \E out \in OutcomesNow(WriteOutcomes) :
         LET w == write_db_string_max_size(db[1], data, max_size, connected,
                                           out)
         IN  /\ call' = [op |-> "write_db_string", data |-> data,
                         max_size |-> max_size, connected |-> connected,
                         out |-> out]
             /\ ret' = [value |-> w.ret, raised |-> w.raised,
                        connects |-> w.connects, reads |-> w.reads,
                        writes |-> w.writes]
             /\ db' = [db EXCEPT ![1] = w.block]
             /\ connected' = w.connected
    /\ UNCHANGED <<ctl, q, faults, loc, ext>>

\* The addresses write_bool is called with: Q0.x and Q1.x for bit offsets
\* inside and outside 0..7, and a text that does not parse.
HarnessAddresses ==
    {QAddress(b, i) : b \in {0, 1}, i \in {-1, 0, 3, 7, 8}} \cup {BadAddress}

\* write_bool(output_address, value) called on the link, up to the read of
\* the current byte (lines 90-107); a call that fails there has returned.
CallWriteBool ==
    /\ call = NoCall
    /\ \E address \in HarnessAddresses : \E value \in BOOLEAN :
       \E out \in OutcomesNow(WriteOutcomes) :
         LET r == WriteBoolRead(address, connected, out)
         IN  /\ call' = [op |-> "write_bool", address |-> address,
                         value |-> value, connected |-> connected,
                         out |-> out, outputs |-> q]
             /\ ret' = [value |-> FALSE, raised |-> FALSE,
                        connects |-> r.connects, reads |-> r.reads,
                        writes |-> 0, result0 |-> NoByte]
             /\ held' = IF r.failed THEN NoByte ELSE q[address.byte]
             /\ connected' = r.connected
    /\ UNCHANGED <<ctl, db, q, faults, sensor_data, readLinked,
                   analysis_result, advisor_exc, idx, wlog, blog, ext>>

\* Faulty variant, for comparison: the byte is read again at the write-back.
ReturnWriteBoolRereads ==
    /\ call # NoCall
    /\ held # NoByte
    /\ \E out \in {"ok", "error"} :
         LET w == WriteBoolWrite(q[call.address.byte], call.address,
                                 call.value, out)
         IN  /\ q' = IF w.written THEN [q EXCEPT ![call.address.byte] = w.byte]
                     ELSE q
             /\ ret' = [ret EXCEPT !.value = w.ret, !.writes = w.writes,
                                   !.result0 = held]
    /\ held' = NoByte
    /\ UNCHANGED <<ctl, connected, db, faults, sensor_data, readLinked,
                   analysis_result, advisor_exc, idx, wlog, blog, call, ext>>

\* The rest of that write_bool (lines 109-127): the bit is modified in the
\* byte read, the byte written back, the call returns.
ReturnWriteBool ==
    /\ call # NoCall
    /\ held # NoByte
    /\ \E out \in {"ok", "error"} :
         LET w == WriteBoolWrite(held, call.address, call.value, out)
         IN  /\ q' = IF w.written THEN [q EXCEPT ![call.address.byte] = w.byte]
                     ELSE q
             /\ ret' = [ret EXCEPT !.value = w.ret, !.writes = w.writes,
                                   !.result0 = held]
    /\ held' = NoByte
    /\ UNCHANGED <<ctl, connected, db, faults, sensor_data, readLinked,
                   analysis_result, advisor_exc, idx, wlog, blog, call, ext>>

\* Something other than this program (the PLC's own program, an HMI) inverts
\* one bit of an output byte, before the call or between the read and the
\* write-back of write_bool.  window: it happened in between.
ExternalWrite ==
    /\ call = NoCall \/ held # NoByte
    /\ Len(ext) < MaxExt
    /\ \E b \in DOMAIN q : \E i \in 0..7 :
         /\ q' = [q EXCEPT ![b] = ModifyBit(q[b], i, BitOf(q[b], i) = 0)]
         /\ ext' = Append(ext, [byte |-> b, bit |-> i,
                                value |-> 1 - BitOf(q[b], i),
                                window |-> held # NoByte])
    /\ UNCHANGED <<ctl, connected, db, faults, loc, call, ret>>

OpNext ==
    \/ CallReadAllSensorData
    \/ CallConnect
    \/ CallReadMdFloat
    \/ CallWriteDbString
    \/ CallWriteBool
    \/ ReturnWriteBool
    \/ ExternalWrite

OpSpec == Init /\ [][OpNext]_vars

\* ================================================================== claims
Alive == {t \in Threads : pc[t] \in InFlight}

\* C1 (as claimed): whatever start() and stop() calls are made, at most one
\* monitoring thread is inside the loop body at a time.
C1_SingleWorker == Cardinality(Alive) <= 1

\* The steps a cycle takes from each position of the body.
NextInCycle(p) ==
    CASE p = "read" -> {"analyze", "sleep_abort"}
      [] p = "analyze" -> {"display"}
      [] p = "display" -> {"display", "actions", "sleep_exc"}
      [] p = "actions" -> {"actions", "sleep_ok", "sleep_exc"}

\* C2: once stop() is the last call made, no thread that is sleeping or at
\* the loop test begins a cycle; and a thread inside a cycle only ever moves
\* on to the next step of that cycle, stop() or not: stop() changes no
\* thread's position.
C2_StopCooperative ==
    [][\A t \in Threads :
         /\ (lastCall = "stop" /\ lastCall' = "stop" /\ pc[t] \notin InFlight)
              => pc'[t] \notin InFlight
         /\ (pc[t] \in InFlight /\ pc'[t] # pc[t])
              => pc'[t] \in NextInCycle(pc[t])
         /\ (running /\ ~running') => pc' = pc]_vars

\* C2 witness: after stop(), one thread has left the loop from its sleep
\* while another is still finishing the cycle it was in.
C2_Witness ==
    /\ lastCall = "stop"
    /\ \E t \in Threads : pc[t] = "done"
    /\ \E t \in Threads : pc[t] = "actions"

\* C3: once stop() is the last call made, either start() is called again or
\* every monitoring thread ends.
C3_StopTerminates ==
    (lastCall = "stop")
        ~> (lastCall = "start" \/ \A t \in Threads : pc[t] \in {"unborn", "done"})

\* C3 witness: stop() was the last call and every thread started has ended.
C3_Witness ==
    /\ lastCall = "stop"
    /\ spawned = MaxThreads
    /\ \A t \in Threads : pc[t] = "done"

\* C4: the monitoring thread ends only at a loop test that follows stop(),
\* and running is cleared by nothing but stop(): no failed read, write,
\* connect, advisor call or unknown name does either.
C4_OnlyStopEnds ==
    [][/\ \A t \in Threads :
            (pc[t] # "done" /\ pc'[t] = "done")
               => (pc[t] = "test" /\ lastCall = "stop")
       /\ (running /\ ~running') => lastCall' = "stop"]_vars

\* C4 witness: the advisor failed, a PLC write failed, the link is down, and
\* the thread is back at the loop test with running still set.
C4_Witness ==
    /\ pc[M] = "test"
    /\ running
    /\ advisor_exc.failed
    /\ faults > 0
    /\ ~connected

AllOk(log) == \A k \in 1..Len(log) : log[k].ok
BlocksOf(log) == [k \in 1..Len(log) |-> log[k].block]

\* C6 (as claimed): after a failed advisor call the recommendation has the
\* failure description as summary, no alert and no command, and the cycle
\* writes DB1..DB3, clears DB4..DB8 and writes nothing else.
C6_DegradedNoAlert ==
    advisor_exc.failed =>
        /\ analysis_result.analiz = advisor_exc.text
        /\ GetUyarilar(analysis_result) = <<>>
        /\ GetEylemler(analysis_result) = <<>>
        /\ pc[M] = "sleep_ok" =>
             (BlocksOf(wlog) = <<1, 2, 3, 4, 5, 6, 7, 8>> /\ blog = <<>>)

\* "1.UYARI: AI analizi basarisiz"
DegradedAlertLine ==
    <<49, 46, 85, 89, 65, 82, 73, 58, 32, 65, 73, 32, 97, 110, 97, 108, 105,
      122, 105, 32, 98, 97, 115, 97, 114, 105, 115, 105, 122>>

\* C6 (amended): after a failed advisor call the recommendation is
\* "Hata oluştu: " + the failure description, the one alert
\* "AI analizi başarısız" and no command; the cycle does not raise; it
\* writes DB1..DB3, clears DB4..DB8, writes that alert to DB4 as
\* "1.UYARI: AI analizi basarisiz" and calls write_bool for nothing.
C6_DegradedOneAlert ==
    advisor_exc.failed =>
        /\ analysis_result.keys = {"analiz", "eylemler", "uyarilar"}
        /\ analysis_result.analiz = HataOlustu \o advisor_exc.text
        /\ analysis_result.uyarilar = <<AIAnaliziBasarisiz>>
        /\ analysis_result.eylemler = <<>>
        /\ pc[M] # "sleep_exc"
        /\ pc[M] \in {"actions", "sleep_ok"} =>
             /\ BlocksOf(wlog) = <<1, 2, 3, 4, 5, 6, 7, 8, 4>>
             /\ \A j \in 4..8 : wlog[j].len = 0
             /\ wlog[9].len = Len(DegradedAlertLine)
             /\ blog = <<>>
             /\ AllOk(wlog) =>
                  /\ db[4].body = DegradedAlertLine
                  /\ \A n \in 5..8 : db[n].len = 0

\* C6 witness: a cycle whose advisor call failed has reached its sleep with
\* every display write done.
C6_Witness ==
    /\ advisor_exc.failed
    /\ pc[M] = "sleep_ok"
    /\ AllOk(wlog)
    /\ Len(wlog) = 9

\* C7 (as claimed): the cycle goes on to the advisor only when some read of
\* the snapshot found the link up, and returns early only when none did.
C7_AbortIffNoLink ==
    /\ pc[M] = "analyze" => readLinked
    /\ pc[M] = "sleep_abort" => ~readLinked

\* The float the MK area holds at the address of sensor name.
MkFloat(name) ==
    [i \in 1..4 |-> MkArea[SensorAddress[name] + i - 1]]

\* C8: whatever each of the five reads meets, read_all_sensor_data returns
\* the five keys, 0.0 for a read that failed and the decoded float for a
\* read that succeeded, the failures before it notwithstanding.
C8_SnapshotTotal ==
    call.op = "read_all_sensor_data" =>
        /\ DOMAIN ret = {"Isik", "CO2", "ToprakNemi", "Nem", "Sicaklik"}
        /\ \A k \in 1..5 :
             ret[SensorOrder[k]] =
                 IF call.outs[k] = "ok" THEN MkFloat(SensorOrder[k])
                 ELSE ZeroFloat

\* C8 witness: reads 1, 3 and 4 failed, each in its own way, and reads 2
\* and 5 delivered their values.
C8_Witness ==
    /\ call.op = "read_all_sensor_data"
    /\ call.outs = <<"error", "ok", "malformed", "noconn", "ok">>
    /\ ret["CO2"] = <<67, 68, 69, 70>>
    /\ ret["Sicaklik"] = <<73, 74, 75, 76>>
    /\ ret["Isik"] = ZeroFloat

\* The display writes of this cycle are over.
DisplayDone ==
    \/ pc[M] \in {"actions", "sleep_ok"}
    \/ pc[M] = "sleep_exc" /\ ~DisplayRaises(analysis_result)

\* C9: with every display write succeeding, the cycle writes DB1..DB8 in
\* order, DB4..DB8 with empty text, and only then alert k <= min(n, 5) to
\* DB(3+k) as "k.UYARI: " + the alert; nothing is written for later alerts;
\* from the clearing on, the blocks after the last alert written are empty.
C9_AlertBlocks ==
    LET alerts == GetUyarilar(analysis_result)
        m == Min(Len(alerts), 5)
    IN  /\ (DisplayDone /\ AllOk(wlog)) =>
             /\ Len(wlog) = 8 + m
             /\ \A j \in 1..8 : wlog[j].block = j
             /\ \A j \in 4..8 : wlog[j].len = 0
             /\ \A k \in 1..m :
                  /\ wlog[8 + k].block = 3 + k
                  /\ db[3 + k] =
                       DbStringBuffer(UyariPrefix(k)
                                        \o util(Slice(alerts[k], 0, 100)),
                                      DefaultMaxSize)
             /\ \A n \in (4 + m)..8 : db[n].len = 0 /\ db[n].body = <<>>
        /\ (pc[M] = "display" /\ idx >= 8 /\ AllOk(wlog)) =>
             \A n \in (4 + Min(idx - 8, 5))..8 : db[n].len = 0

\* C9 witness: a cycle with 7 alerts has made its 13 display writes.
C9_Witness ==
    /\ pc[M] = "sleep_ok"
    /\ Len(GetUyarilar(analysis_result)) = 7
    /\ AllOk(wlog)
    /\ Len(wlog) = 13
    /\ db[8].body = <<53, 46, 85, 89, 65, 82, 73, 58, 32, 73, 115, 105, 32, 53>>

\* The commands that name an equipment of the mapping.
KnownCommands(cmds) ==
    SelectSeq(cmds, LAMBDA c : c.dict /\ c.ekipman \in DOMAIN equipment_mapping)

\* C10: with every write succeeding, write_bool is called for the commands
\* in the order of the list, and at the end of the cycle the output bit of
\* each equipment named holds the state of the last command that names it.
C10_LastWriteWins ==
    LET cmds == GetEylemler(analysis_result)
        known == KnownCommands(cmds)
    IN  (pc[M] = "sleep_ok" /\ AllOk(blog)) =>
            /\ Len(blog) = Len(known)
            /\ \A k \in 1..Len(known) :
                 /\ blog[k].ekipman = known[k].ekipman
                 /\ blog[k].durum = known[k].durum
            /\ \A name \in DOMAIN equipment_mapping :
                 LET ks == {k \in 1..Len(cmds) : cmds[k].ekipman = name}
                     last == CHOOSE k \in ks : \A j \in ks : j <= k
                 IN  ks # {} =>
                       BitOf(q[equipment_mapping[name].byte],
                             equipment_mapping[name].bit)
                         = IF cmds[last].durum THEN 1 ELSE 0

\* C10 witness: two commands for the same equipment with opposite states
\* have both been written, and the bit holds the second.
C10_Witness ==
    /\ pc[M] = "sleep_ok"
    /\ AllOk(blog)
    /\ Len(blog) = 2
    /\ blog[1].ekipman = "Sulama" /\ blog[2].ekipman = "Sulama"
    /\ blog[1].durum /\ ~blog[2].durum
    /\ BitOf(q[0], 4) = 0

\* The command the loop is at names no equipment of the mapping.
AtUnknownCommand ==
    LET cmds == GetEylemler(analysis_result)
    IN  /\ pc[M] = "actions"
        /\ held = NoByte
        /\ idx < Len(cmds)
        /\ cmds[idx + 1].dict
        /\ cmds[idx + 1].ekipman \notin DOMAIN equipment_mapping

\* C11: at a command whose equipment name is outside the mapping the loop
\* touches neither the link nor the PLC, makes no write call, stays in the
\* command loop and moves to the next command; at the end of the cycle
\* write_bool has been called for every command of the list that names a
\* known equipment, those after the unknown name included.
C11_UnknownSkipped ==
    /\ [][AtUnknownCommand =>
            /\ UNCHANGED <<connected, db, q, faults, wlog, blog>>
            /\ pc'[M] = "actions"
            /\ idx' \in {idx, idx + 1}]_vars
    /\ [](pc[M] = "sleep_ok" =>
            Len(blog) = Len(KnownCommands(GetEylemler(analysis_result))))

\* C11 witness: the list began with an unknown name, the cycle has ended
\* normally and the command after it has set its bit.
C11_Witness ==
    /\ pc[M] = "sleep_ok"
    /\ Len(GetEylemler(analysis_result)) = 2
    /\ GetEylemler(analysis_result)[1].ekipman \notin DOMAIN equipment_mapping
    /\ Len(blog) = 1
    /\ blog[1].ekipman = "Led" /\ blog[1].ok
    /\ BitOf(q[0], 7) = 1

\* A PLC operation called on its own has returned.
OpReturned(op) == call.op = op /\ held = NoByte

\* C12: read_md_float, write_bool and write_db_string call connect() once
\* when the link is down at the call and not at all when it is up; when the
\* link is still down after that, they make no transport call and return
\* 0.0 (the read) or False (the writes) without raising.
C12_OneConnectAttempt ==
    \A op \in {"read_md_float", "write_bool", "write_db_string"} :
        OpReturned(op) =>
            /\ ret.connects = IF call.connected THEN 0 ELSE 1
            /\ ~ret.raised
            /\ (~call.connected /\ ~connected) =>
                 /\ ret.reads = 0
                 /\ ret.writes = 0
                 /\ ret.value = IF op = "read_md_float" THEN ZeroFloat
                                ELSE FALSE

\* C12 witness: write_bool was called on a link that was down, connect()
\* failed, and the call has returned.
C12_Witness ==
    /\ OpReturned("write_bool")
    /\ ~call.connected
    /\ ~connected
    /\ call.address = QAddress(0, 3)
    /\ ret.connects = 1

\* No external write fell between the read and the write-back.
NoWindowWrite == \A k \in 1..Len(ext) : ~ext[k].window

\* C13: a write_bool(Qb.i, v) with i in 0..7 that returned True, no external
\* write in between, has set bit i of byte b to v and left every other bit
\* of every output byte as it was at the call.
C13_WriteBoolFrame ==
    (/\ OpReturned("write_bool")
     /\ ret.value
     /\ call.address.bit \in 0..7
     /\ NoWindowWrite) =>
        \A b \in DOMAIN q : \A i \in 0..7 :
            BitOf(q[b], i) =
                IF b = call.address.byte /\ i = call.address.bit
                THEN (IF call.value THEN 1 ELSE 0)
                ELSE BitOf(call.outputs[b], i)

\* C13 witness: write_bool("Q0.3", True) has returned True on an output
\* byte whose bit 3 was clear and whose other bits were mixed.
C13_Witness ==
    /\ OpReturned("write_bool")
    /\ ret.value
    /\ call.address = QAddress(0, 3)
    /\ call.value
    /\ ext = <<>>
    /\ call.outputs[0] = 53
    /\ q[0] = 61

\* C14 (as claimed): the buffer written for (text, c) has length c + 2,
\* byte 0 = c, byte 1 = min(number of encoded bytes, c), and then the first
\* byte-1 encoded bytes.
C14_LengthOfEncoded ==
    (OpReturned("write_db_string") /\ ret.value) =>
        LET c == call.max_size
            bytes == EncodeAsciiIgnore(call.data)
            n == Min(Len(bytes), c)
        IN  /\ db[1].size = c + 2
            /\ db[1].maxlen = c
            /\ db[1].len = n
            /\ db[1].body = SubSeq(bytes, 1, n)

\* C15 (as claimed): for a capacity above 255 the block is written, with
\* 255 as byte 0.
C15_CapacityClamped ==
    (/\ OpReturned("write_db_string")
     /\ call.max_size > 255
     /\ call.out = "ok") =>
        /\ ret.value
        /\ ret.writes = 1
        /\ db[1].maxlen = 255

\* The summary write k of this cycle has been made.
SummaryWritten(k) ==
    /\ ~DisplayRaises(analysis_result)
    /\ \/ pc[M] = "display" /\ idx >= k
       \/ pc[M] \in {"actions", "sleep_ok", "sleep_exc"}

\* The bounds of the three chunks.
ChunkBounds == << <<0, 100>>, <<100, 200>>, <<200, 250>> >>

\* C16: in a cycle whose recommendation holds a summary s, the first three
\* write_db_string calls go to DB1, DB2, DB3 in this order with s[0:100],
\* s[100:200], s[200:250] (transliterated), an empty chunk included; a block
\* whose write succeeded holds that chunk.
C16_ThreeChunks ==
    \A k \in 1..3 :
        SummaryWritten(k) =>
            LET chunk == Slice(analysis_result.analiz, ChunkBounds[k][1],
                               ChunkBounds[k][2])
            IN  /\ Len(wlog) >= k
                /\ wlog[k].block = k
                /\ wlog[k].len = Len(chunk)
                /\ wlog[k].ok =>
                     db[k] = DbStringBuffer(util(chunk), DefaultMaxSize)

\* C16 witness: a summary of 9 characters has been written to DB1 and the
\* two empty chunks to DB2 and DB3.
C16_Witness ==
    /\ pc[M] = "actions"
    /\ analysis_result.analiz = ShortSummary
    /\ AllOk(wlog)
    /\ wlog[1].len = 9 /\ wlog[2].len = 0 /\ wlog[3].len = 0
    /\ db[1].len = 9 /\ db[2].len = 0 /\ db[3].len = 0

\* The text display write k of the cycle is made from (the summary for
\* k = 1..3, alert k - 8 from k = 9 on), and the bounds it is cut at.
SourceText(k) ==
    IF k <= 3 THEN analysis_result.analiz
    ELSE GetUyarilar(analysis_result)[k - 8]
SourceBounds(k) == IF k <= 3 THEN ChunkBounds[k] ELSE <<0, 100>>
\* The display writes of this cycle that carry a text.
TextWrites ==
    IF DisplayRaises(analysis_result) THEN {}
    ELSE {k \in 1..Len(wlog) : k <= 3 \/ k >= 9}

\* C17 (as claimed): util() is called with the whole text, which is cut
\* afterwards.
C17_UtilBeforeTruncate ==
    \A k \in TextWrites : wlog[k].arg = Len(SourceText(k))

\* C17 (amended): util() is called with the text already cut; the text
\* written is nevertheless the cut of util(text): the summary chunks
\* util(s)[a:b], alert i as "i.UYARI: " + util(alert)[0:100] (stated of
\* the last display write made, that is of each write as it is made).
C17_TruncateThenUtil ==
    \A k \in TextWrites \cap {Len(wlog)} :
        LET a == SourceBounds(k)[1]
            b == SourceBounds(k)[2]
            cut == Slice(util(SourceText(k)), a, b)
            text == IF k <= 3 THEN cut ELSE UyariPrefix(k - 8) \o cut
        IN  /\ wlog[k].arg = Len(Slice(SourceText(k), a, b))
            /\ wlog[k].len = Len(text)
            /\ wlog[k].ok =>
                 db[wlog[k].block] = DbStringBuffer(text, DefaultMaxSize)

\* C17 witness: a summary with "ü" as its character 100 and an alert with
\* "ş" as its characters 100 and 101 have been written: "u" ends DB1 and
\* one "s" ends DB4.
C17_Witness ==
    /\ pc[M] = "sleep_ok"
    /\ analysis_result.analiz = LongSummary
    /\ AllOk(wlog)
    /\ wlog[1].arg = 100
    /\ wlog[9].arg = 100
    /\ db[1].body[100] = 117
    /\ db[4].len = 109
    /\ db[4].body[109] = 115

\* External write k is the last one to its bit.
LastToBit(k) ==
    \A j \in (k + 1)..Len(ext) :
        ext[j].byte # ext[k].byte \/ ext[j].bit # ext[k].bit

\* C18: a write_bool(Qb.i, v) that returned True has written back the byte
\* it read with bit i modified: a change an external writer made to another
\* bit of byte b between the read and the write-back is undone; with no
\* external write in between, every external change to another bit is still
\* in the output area.
C18_LostUpdate ==
    (/\ OpReturned("write_bool")
     /\ ret.value
     /\ call.address.bit \in 0..7) =>
        LET b == call.address.byte
            i == call.address.bit
        IN  /\ q[b] = ModifyBit(ret.result0, i, call.value)
            /\ \A k \in 1..Len(ext) :
                 (/\ ext[k].window
                  /\ LastToBit(k)
                  /\ ext[k].byte = b
                  /\ ext[k].bit # i
                  /\ ext[k].value # BitOf(ret.result0, ext[k].bit)) =>
                     BitOf(q[b], ext[k].bit) # ext[k].value
            /\ NoWindowWrite =>
                 \A k \in 1..Len(ext) :
                     (LastToBit(k) /\ (ext[k].byte # b \/ ext[k].bit # i)) =>
                         BitOf(q[ext[k].byte], ext[k].bit) = ext[k].value

\* C18 witness: bit 3 of byte 0 was set from outside between the read and
\* the write-back of write_bool("Q0.7", True); the call returned True and
\* bit 3 is clear again.
C18_Witness ==
    /\ OpReturned("write_bool")
    /\ ret.value
    /\ call.address = QAddress(0, 7)
    /\ call.value
    /\ Len(ext) = 1
    /\ ext[1] = [byte |-> 0, bit |-> 3, value |-> 1, window |-> TRUE]
    /\ BitOf(q[0], 3) = 0
    /\ BitOf(q[0], 7) = 1

\* C19 (as claimed): connect() does not raise, leaves a connected link
\* connected, and leaves the link not connected when the attempt fails.
C19_ConnectIdempotent ==
    OpReturned("connect") =>
        /\ ~ret.raised
        /\ call.connected => connected
        /\ call.out # "ok" => ~connected

\* The write_bool call fails before its write-back.
FailsBeforeWriteBack ==
    \/ call.out # "ok"
    \/ ~call.address.parses
    \/ call.address.bit \notin 0..7

\* C20 (as claimed): a write_bool that is not connected, cannot parse its
\* address, cannot read the current byte or has a bit offset outside 0..7
\* makes no write_area call, leaves the output area as it is and returns
\* False.
C20_NoWriteOnFailure ==
    (OpReturned("write_bool") /\ FailsBeforeWriteBack) =>
        /\ ret.writes = 0
        /\ ~ret.value
        /\ NoWindowWrite => q = call.outputs

\* The step the cycle is at raises: the summary is missing, or the command
\* entry is not a dict.
AtRaisingStep ==
    \/ pc[M] = "display" /\ idx = 0 /\ DisplayRaises(analysis_result)
    \/ /\ pc[M] = "actions"
       /\ held = NoByte
       /\ idx < Len(GetEylemler(analysis_result))
       /\ ~GetEylemler(analysis_result)[idx + 1].dict

\* Entry k of a write log succeeded and no later entry for the same target
\* did.
LastOkBlock(k) ==
    /\ wlog[k].ok
    /\ \A j \in (k + 1)..Len(wlog) : ~(wlog[j].ok /\ wlog[j].block = wlog[k].block)
LastOkBit(k) ==
    /\ blog[k].ok
    /\ \A j \in (k + 1)..Len(blog) :
         ~(blog[j].ok /\ blog[j].ekipman = blog[k].ekipman)

\* C21: at a step that raises, the cycle writes nothing, undoes nothing and
\* goes to the sleep of the except branch, from where the only way on is the
\* loop test; a block changes only by a write_db_string call of the cycle to
\* that block and an output byte only by a write_bool call of the cycle, so
\* what was not written keeps its earlier value; in that sleep the blocks and
\* bits written before the raise hold what was written, and no write_bool
\* call was made for a command at or after the one that raised.
C21_RaiseKeepsWrites ==
    /\ [][AtRaisingStep =>
            /\ UNCHANGED <<connected, db, q, faults, wlog, blog, idx>>
            /\ pc'[M] \in {pc[M], "sleep_exc"}]_vars
    /\ [][pc[M] = "sleep_exc" =>
            /\ UNCHANGED <<connected, db, q, faults, wlog, blog>>
            /\ pc'[M] \in {"sleep_exc", "test"}]_vars
    /\ [][/\ \A n \in Blocks :
               db'[n] # db[n] =>
                   /\ Len(wlog') = Len(wlog) + 1
                   /\ wlog'[Len(wlog')].block = n
                   /\ wlog'[Len(wlog')].ok
          /\ \A b \in DOMAIN q :
               q'[b] # q[b] =>
                   /\ Len(blog') = Len(blog) + 1
                   /\ blog'[Len(blog')].ok
                   /\ equipment_mapping[blog'[Len(blog')].ekipman].byte = b
                   /\ \A i \in 0..7 :
                        i # equipment_mapping[blog'[Len(blog')].ekipman].bit =>
                            BitOf(q'[b], i) = BitOf(q[b], i)]_vars
    /\ [](pc[M] = "sleep_exc" =>
            /\ \A k \in 1..Len(wlog) :
                 LastOkBlock(k) => db[wlog[k].block].len = wlog[k].len
            /\ \A k \in 1..Len(blog) :
                 LastOkBit(k) =>
                     BitOf(q[equipment_mapping[blog[k].ekipman].byte],
                           equipment_mapping[blog[k].ekipman].bit)
                       = IF blog[k].durum THEN 1 ELSE 0
            /\ Len(blog) =
                 Len(KnownCommands(SubSeq(GetEylemler(analysis_result),
                                          1, idx))))

\* C21 witness: the second entry of a command list was malformed; the cycle
\* is in the sleep of the except branch with its nine display writes and
\* the first command (Led off) made, the third (Sulama on) not made, and
\* the Sulama bit still clear from an earlier cycle.
C21_Witness ==
    /\ pc[M] = "sleep_exc"
    /\ Len(GetEylemler(analysis_result)) = 3
    /\ idx = 1
    /\ Len(wlog) = 9 /\ AllOk(wlog)
    /\ db[1].len = 9 /\ db[4].len = 14
    /\ Len(blog) = 1 /\ blog[1].ekipman = "Led" /\ blog[1].ok
    /\ BitOf(q[0], 7) = 0
    /\ BitOf(q[0], 4) = 0
====
